---- MODULE Spec2Model ----
(***************************************************************************)
(* Model of the graph-analysis core of circular-dependency-hunter:         *)
(*   src/src/circular-deps.ts  findCircularDependencies and its helpers    *)
(*   src/src/dead-code.ts      findDeadCode and its helpers                *)
(* Paths, relationship types, ids and glob patterns are strings; the      *)
(* string functions of the code (comparison, join, replace, includes,      *)
(* toLowerCase, the extension regex, glob matching) are computed on the    *)
(* characters.  A JavaScript Set or Map is a sequence in insertion order.  *)
(***************************************************************************)
EXTENDS FiniteSets, Integers, Sequences, TLC

(***************************************************************************)
(* Strings                                                                 *)
(***************************************************************************)

\* The characters that occur in the model, in increasing UTF-16 code order.
ALPHABET == "*-./>ABCDEFGHIJKLMNOPQRSTUVWXYZ\\_abcdefghijklmnopqrstuvwxyz"

UPPERCASE == "ABCDEFGHIJKLMNOPQRSTUVWXYZ"

LOWERCASE == "abcdefghijklmnopqrstuvwxyz"

CharAt(s, i) == SubSeq(s, i, i)

CharSet == {CharAt(ALPHABET, i) : i \in 1..Len(ALPHABET)}

\* The rank of a character in code-unit order (the order JavaScript's < uses).
CharRank == [c \in CharSet |-> CHOOSE i \in 1..Len(ALPHABET) : CharAt(ALPHABET, i) = c]

\* String.prototype.toLowerCase on one character.
LowerChar == [c \in CharSet |->
    IF \E i \in 1..Len(UPPERCASE) : CharAt(UPPERCASE, i) = c
    THEN CharAt(LOWERCASE, CHOOSE i \in 1..Len(UPPERCASE) : CharAt(UPPERCASE, i) = c)
    ELSE c]

\* The concatenation of the strings of a sequence.
RECURSIVE Concat(_, _)
Concat(pieces, i) ==
    IF i > Len(pieces) THEN "" ELSE pieces[i] \o Concat(pieces, i + 1)

toLowerCase(s) == Concat([i \in 1..Len(s) |-> LowerChar[CharAt(s, i)]], 1)

\* a < b on JavaScript strings: lexicographic on code units, a proper prefix is smaller.
RECURSIVE StrLessFrom(_, _, _)
StrLessFrom(a, b, i) ==
    IF i > Len(b) THEN FALSE
    ELSE IF i > Len(a) THEN TRUE
    ELSE IF CharAt(a, i) = CharAt(b, i) THEN StrLessFrom(a, b, i + 1)
    ELSE CharRank[CharAt(a, i)] < CharRank[CharAt(b, i)]

StrLess(a, b) == StrLessFrom(a, b, 1)

StrLeq(a, b) == a = b \/ StrLess(a, b)

\* String.prototype.includes
includes(s, sub) ==
    \E i \in 1..(Len(s) - Len(sub) + 1) : SubSeq(s, i, i + Len(sub) - 1) = sub

\* Array.prototype.join
RECURSIVE join(_, _)
join(values, sep) ==
    IF Len(values) = 0 THEN ""
    ELSE IF Len(values) = 1 THEN values[1]
    ELSE values[1] \o sep \o join(Tail(values), sep)

\* String.prototype.split on a one-character separator (empty pieces are kept).
\* The pieces of s from position start on; i is the position the scan is at.
RECURSIVE SplitFrom(_, _, _, _)
SplitFrom(s, sep, start, i) ==
    IF i > Len(s) THEN <<SubSeq(s, start, Len(s))>>
    ELSE IF CharAt(s, i) = sep
         THEN <<SubSeq(s, start, i - 1)>> \o SplitFrom(s, sep, i + 1, i + 1)
         ELSE SplitFrom(s, sep, start, i + 1)

Split(s, sep) == SplitFrom(s, sep, 1, 1)

\* The elements of a sequence.
Range(seq) == {seq[i] : i \in 1..Len(seq)}

\* Set.prototype.add on a Set kept in insertion order.
SetAdd(seq, v) == IF v \in Range(seq) THEN seq ELSE Append(seq, v)

\* Array.prototype.reverse
Reverse(seq) == [i \in 1..Len(seq) |-> seq[Len(seq) + 1 - i]]

\* Array.prototype.indexOf, 1-based (0 when absent).
IndexOf(seq, v) ==
    IF v \in Range(seq) THEN CHOOSE i \in 1..Len(seq) : seq[i] = v /\ \A j \in 1..(i - 1) : seq[j] # v
    ELSE 0

(***************************************************************************)
(* Glob matching: minimatch(path, pattern) for patterns made of literal    *)
(* characters, "*" inside a segment and "**" segments, default options.    *)
(***************************************************************************)

\* One path segment against one pattern segment; "*" matches any run of characters.
RECURSIVE SegmentChars(_, _)
SegmentChars(seg, pat) ==
    IF pat = "" THEN seg = ""
    ELSE IF Head(pat) = "*"
         THEN SegmentChars(seg, Tail(pat)) \/ (seg # "" /\ SegmentChars(Tail(seg), pat))
         ELSE seg # "" /\ Head(seg) = Head(pat) /\ SegmentChars(Tail(seg), Tail(pat))

\* A leading "." of a segment is matched only by a literal "." (option dot is off)
\* and a segment pattern that starts with "*" needs a non-empty segment.
SegmentMatch(seg, pat) ==
    /\ (seg # "" /\ Head(seg) = ".") => (pat # "" /\ Head(pat) = ".")
    /\ (pat # "" /\ Head(pat) = "*") => seg # ""
    /\ SegmentChars(seg, pat)

DotSegment(seg) == seg # "" /\ Head(seg) = "."

\* The segments of the path against the segments of the pattern; "**" stands
\* for zero or more segments, none of which starts with ".".
RECURSIVE MatchSegments(_, _)
MatchSegments(file, pattern) ==
    IF Len(pattern) = 0 THEN Len(file) = 0
    ELSE IF pattern[1] = "**"
         THEN IF Len(pattern) = 1
              THEN \A i \in 1..Len(file) : ~DotSegment(file[i])
              ELSE \/ MatchSegments(file, Tail(pattern))
                   \/ /\ Len(file) > 0
                      /\ ~DotSegment(file[1])
                      /\ MatchSegments(Tail(file), pattern)
         ELSE /\ Len(file) > 0
              /\ MatchSegments(Tail(file), Tail(pattern))
              /\ SegmentMatch(file[1], pattern[1])

\* The match of a path, given with its segments, against the segments of a
\* pattern; the empty path matches the empty pattern only.
MatchParts(filePath, file, glob) ==
    IF filePath = "" THEN glob = <<"">> ELSE MatchSegments(file, glob)

minimatch(filePath, pattern) == MatchParts(filePath, Split(filePath, "/"), Split(pattern, "/"))

\* The patterns of a list, each split into its segments once.
GlobParts(patterns) ==
    SubSeq([i \in 1..Len(patterns) |-> Split(patterns[i], "/")], 1, Len(patterns))

(***************************************************************************)
(* circular-deps.ts: helpers                                               *)
(***************************************************************************)

DEFAULT_EXCLUDE_PATTERNS == <<
    "**/node_modules/**", "**/dist/**", "**/build/**", "**/.git/**",
    "**/vendor/**", "**/target/**",
    "**/*.test.ts", "**/*.test.tsx", "**/*.test.js", "**/*.test.jsx",
    "**/*.spec.ts", "**/*.spec.tsx", "**/*.spec.js", "**/*.spec.jsx",
    "**/__tests__/**", "**/__mocks__/**" >>

DEFAULT_EXCLUDE_GLOBS == GlobParts(DEFAULT_EXCLUDE_PATTERNS)

\* allPatterns.some(pattern => minimatch(filePath, pattern)), the default
\* patterns first; the path is split once for all patterns.
shouldIgnoreFile(filePath, ignorePatterns) ==
    LET file == Split(filePath, "/")
    IN  \/ \E i \in 1..Len(DEFAULT_EXCLUDE_GLOBS) :
              MatchParts(filePath, file, DEFAULT_EXCLUDE_GLOBS[i])
        \/ \E i \in 1..Len(ignorePatterns) :
              MatchParts(filePath, file, Split(ignorePatterns[i], "/"))

\* value.replace(/\\/g, '/')
normalizePath(value) ==
    Concat([i \in 1..Len(value) |-> IF CharAt(value, i) = "\\" THEN "/" ELSE CharAt(value, i)], 1)

\* getFilePathFromNode without the last alternative, node.id.
getFilePathFromNode_NoId(node) ==
    IF node.filePath # "" THEN node.filePath
    ELSE IF node.path # "" THEN node.path
    ELSE IF node.file # "" THEN node.file
    ELSE node.name

\* An absent property is the empty string: both are falsy in the || chain.
getFilePathFromNode(node) ==
    IF node.filePath # "" THEN node.filePath
    ELSE IF node.path # "" THEN node.path
    ELSE IF node.file # "" THEN node.file
    ELSE IF node.name # "" THEN node.name
    ELSE node.id

DEPENDENCY_MARKERS == <<"import", "depend", "require", "use", "include", "reference", "module">>

\* isDependencyRelationship with the markers tested before the call exclusion.
isDependencyRelationship_MarkersFirst(rel) ==
    LET type == toLowerCase(rel.type)
    IN  IF \E i \in 1..Len(DEPENDENCY_MARKERS) : includes(type, DEPENDENCY_MARKERS[i]) THEN TRUE
        ELSE FALSE

isDependencyRelationship(rel) ==
    LET type == toLowerCase(rel.type)
    IN  IF includes(type, "call") THEN FALSE
        ELSE \E i \in 1..Len(DEPENDENCY_MARKERS) : includes(type, DEPENDENCY_MARKERS[i])

\* The index the loop of rotateToSmallest ends with: the first position of a
\* smallest element.
RECURSIVE MinIndexFrom(_, _, _)
MinIndexFrom(values, i, minIndex) ==
    IF i > Len(values) THEN minIndex
    ELSE MinIndexFrom(values, i + 1, IF StrLess(values[i], values[minIndex]) THEN i ELSE minIndex)

rotateToSmallest(values) ==
    IF Len(values) = 0 THEN values
    ELSE LET minIndex == MinIndexFrom(values, 2, 1)
         IN  SubSeq(values, minIndex, Len(values)) \o SubSeq(values, 1, minIndex - 1)

\* normalizeCycle without the removal of the closing element.
normalizeCycle_KeepClosing(cycle) ==
    LET forward == rotateToSmallest(cycle)
        backward == rotateToSmallest(Reverse(cycle))
    IN  IF StrLeq(join(forward, "->"), join(backward, "->")) THEN forward ELSE backward

normalizeCycle(cycle) ==
    LET trimmed == IF Len(cycle) > 1 /\ cycle[1] = cycle[Len(cycle)]
                   THEN SubSeq(cycle, 1, Len(cycle) - 1)
                   ELSE cycle
        forward == rotateToSmallest(trimmed)
        backward == rotateToSmallest(Reverse(trimmed))
        forwardKey == join(forward, "->")
        backwardKey == join(backward, "->")
    IN  IF StrLeq(forwardKey, backwardKey) THEN forward ELSE backward

\* /\.[^/]+$/.test(normalized)
hasExtension(normalized) ==
    \E i \in 1..(Len(normalized) - 1) :
        /\ CharAt(normalized, i) = "."
        /\ \A j \in (i + 1)..Len(normalized) : CharAt(normalized, j) # "/"

EXTENSIONS == <<".ts", ".tsx", ".js", ".jsx", ".mjs", ".cjs">>

\* ResolveCandidates with every direct candidate before every index candidate.
ResolveCandidates_DirectFirst(normalized, i) ==
    [k \in 1..Len(EXTENSIONS) |-> normalized \o EXTENSIONS[k]]
    \o [k \in 1..Len(EXTENSIONS) |-> normalized \o "/index" \o EXTENSIONS[k]]

\* The candidates resolveFilePath tries after the literal value, in order.
RECURSIVE ResolveCandidates(_, _)
ResolveCandidates(normalized, i) ==
    IF i > Len(EXTENSIONS) THEN <<>>
    ELSE <<normalized \o EXTENSIONS[i], normalized \o "/index" \o EXTENSIONS[i]>>
         \o ResolveCandidates(normalized, i + 1)

\* The value undefined of the code is the empty string here (the caller tests
\* the result with ||, and no member of referencePaths is empty).
resolveFilePath(candidate, referencePaths) ==
    LET normalized == normalizePath(candidate)
        tries == ResolveCandidates(normalized, 1)
        hits == {i \in 1..Len(tries) : tries[i] \in referencePaths}
    IN  IF normalized \in referencePaths THEN normalized
        ELSE IF ~hasExtension(normalized) /\ hits # {}
             THEN tries[CHOOSE i \in hits : \A j \in hits : i <= j]
             ELSE ""

(***************************************************************************)
(* circular-deps.ts: findCircularDependencies, the graph builder           *)
(***************************************************************************)

IsFileOrModule(node) == \E label \in node.labels : label = "File" \/ label = "Module"

\* KeptRawPath with the default patterns only.
KeptRawPath_DefaultsOnly(node, patterns) ==
    LET rawPath == normalizePath(getFilePathFromNode(node))
    IN  IF rawPath = "" \/ shouldIgnoreFile(rawPath, <<>>) THEN "" ELSE rawPath

\* The path a loop of the builder keeps for a node, "" when the node is skipped.
KeptRawPath(node, patterns) ==
    LET rawPath == normalizePath(getFilePathFromNode(node))
    IN  IF rawPath = "" \/ shouldIgnoreFile(rawPath, patterns) THEN "" ELSE rawPath

\* Lines 140-150: the paths of the File and Module nodes that are not ignored.
FileNodePaths(nodeList, patterns) ==
    {KeptRawPath(nodeList[i], patterns) :
        i \in {j \in 1..Len(nodeList) : IsFileOrModule(nodeList[j])}} \ {""}

\* ReferencePaths without the fallback to the paths of all nodes.
ReferencePaths_FileNodesOnly(nodeList, patterns) ==
    FileNodePaths(nodeList, patterns)

\* Lines 152-161: fileNodePaths, or the paths of all nodes when it is empty.
ReferencePaths(nodeList, patterns) ==
    LET fileNodePaths == FileNodePaths(nodeList, patterns)
    IN  IF fileNodePaths # {} THEN fileNodePaths
        ELSE {KeptRawPath(nodeList[i], patterns) : i \in 1..Len(nodeList)} \ {""}

\* Map.prototype.has on a Map kept as a sequence of entries.
HasKey(map, key) == \E i \in 1..Len(map) : map[i].key = key

\* Map.prototype.get on a Map kept as a sequence of entries; "" is undefined.
MapGet(map, key) ==
    IF HasKey(map, key)
    THEN map[CHOOSE i \in 1..Len(map) : map[i].key = key].value
    ELSE ""

\* Map.prototype.set: a present key keeps its position.
MapSet(map, key, value) ==
    IF HasKey(map, key)
    THEN [i \in 1..Len(map) |-> IF map[i].key = key THEN [key |-> key, value |-> value] ELSE map[i]]
    ELSE Append(map, [key |-> key, value |-> value])

\* Lines 163-171: node id -> resolved path, for the nodes that are not ignored.
RECURSIVE FilePathById(_, _, _, _)
FilePathById(nodeList, patterns, refs, i) ==
    IF i = 0 THEN <<>>
    ELSE LET before == FilePathById(nodeList, patterns, refs, i - 1)
             rawPath == KeptRawPath(nodeList[i], patterns)
             resolved == resolveFilePath(rawPath, refs)
         IN  IF rawPath = "" THEN before
             ELSE MapSet(before, nodeList[i].id, IF resolved # "" THEN resolved ELSE rawPath)

\* AdjacencyKeys that initialises no entry.
AdjacencyKeys_NoEntries(byId, i) == <<>>

\* Lines 173-178: an empty adjacency set for every resolved path, in the order
\* of filePathById.values().
RECURSIVE AdjacencyKeys(_, _)
AdjacencyKeys(byId, i) ==
    IF i = 0 THEN <<>>
    ELSE LET before == AdjacencyKeys(byId, i - 1)
         IN  IF HasKey(before, byId[i].value) THEN before
             ELSE Append(before, [key |-> byId[i].value, value |-> <<>>])

\* adjacency.get(startPath)?.add(endPath)
AddEdge(adj, startPath, endPath) ==
    [i \in 1..Len(adj) |->
        IF adj[i].key = startPath
        THEN [key |-> startPath, value |-> SetAdd(adj[i].value, endPath)]
        ELSE adj[i]]

\* AddRelationships without the test startPath === endPath.
RECURSIVE AddRelationships_KeepSelfLoops(_, _, _, _)
AddRelationships_KeepSelfLoops(adj, byId, rels, i) ==
    IF i = 0 THEN adj
    ELSE LET before == AddRelationships_KeepSelfLoops(adj, byId, rels, i - 1)
             startPath == MapGet(byId, rels[i].startNode)
             endPath == MapGet(byId, rels[i].endNode)
         IN  IF ~isDependencyRelationship(rels[i]) THEN before
             ELSE IF startPath = "" \/ endPath = "" THEN before
             ELSE AddEdge(before, startPath, endPath)

\* Lines 180-191: the dependency relationships between two different resolved paths.
RECURSIVE AddRelationships(_, _, _, _)
AddRelationships(adj, byId, rels, i) ==
    IF i = 0 THEN adj
    ELSE LET before == AddRelationships(adj, byId, rels, i - 1)
             startPath == MapGet(byId, rels[i].startNode)
             endPath == MapGet(byId, rels[i].endNode)
         IN  IF ~isDependencyRelationship(rels[i]) THEN before
             ELSE IF startPath = "" \/ endPath = "" THEN before
             ELSE IF startPath = endPath THEN before
             ELSE AddEdge(before, startPath, endPath)

\* adjacency.get(nodePath) || new Set()
Neighbors(adj, nodePath) ==
    IF HasKey(adj, nodePath) THEN adj[CHOOSE i \in 1..Len(adj) : adj[i].key = nodePath].value
    ELSE <<>>

(***************************************************************************)
(* State                                                                   *)
(***************************************************************************)

VARIABLES
    nodes,           \* argument nodes of the running call
    relationships,   \* argument relationships
    ignorePatterns,  \* argument ignorePatterns
    pc,              \* position in findCircularDependencies
    referencePaths,  \* Set<string>
    filePathById,    \* Map<string, string>
    adjacency,       \* Map<string, Set<string>>
    results,         \* CircularDependencyResult[]
    seenCycles,      \* Set<string>
    visited,         \* Set<string>
    stack,           \* string[]
    onStack,         \* Set<string>
    frames,          \* the active dfs calls: nodePath and the next neighbor to visit
    root,            \* position of the outer loop over adjacency.keys()
    dpc,             \* position in findDeadCode
    deadCode,        \* DeadCodeResult[]
    queue,           \* the arguments of the calls still to make on this graph
    earlier,         \* the values the earlier calls returned
    unit,            \* a helper applied on its own: its argument and its value
    run              \* run() of index.ts: its position, inputs, outputs and failures

args == <<nodes, relationships, ignorePatterns>>

aside == <<dpc, deadCode, queue, earlier, unit, run>>

vars == <<nodes, relationships, ignorePatterns, pc, referencePaths, filePathById,
          adjacency, results, seenCycles, visited, stack, onStack, frames, root,
          dpc, deadCode, queue, earlier, unit, run>>

(***************************************************************************)
(* findCircularDependencies, step by step                                  *)
(***************************************************************************)

\* Lines 140-161.
CollectReferencePaths ==
    /\ pc = "start"
    /\ referencePaths' = ReferencePaths(nodes, ignorePatterns)
    /\ pc' = "map"
    /\ UNCHANGED <<args, aside, filePathById, adjacency,
                   results, seenCycles, visited, stack, onStack, frames, root>>

\* Lines 163-171.
MapNodes ==
    /\ pc = "map"
    /\ filePathById' = FilePathById(nodes, ignorePatterns, referencePaths, Len(nodes))
    /\ pc' = "adjacency"
    /\ UNCHANGED <<args, aside, referencePaths, adjacency,
                   results, seenCycles, visited, stack, onStack, frames, root>>

\* Lines 173-197.
BuildAdjacency ==
    /\ pc = "adjacency"
    /\ adjacency' = AddRelationships(AdjacencyKeys(filePathById, Len(filePathById)),
                                     filePathById, relationships, Len(relationships))
    /\ results' = <<>>
    /\ seenCycles' = {}
    /\ visited' = {}
    /\ stack' = <<>>
    /\ onStack' = {}
    /\ frames' = <<>>
    /\ root' = 1
    /\ pc' = "roots"
    /\ UNCHANGED <<args, aside, referencePaths, filePathById>>

\* Lines 199-202: a call of dfs pushes its node.
EnterDfs(nodePath) ==
    /\ visited' = visited \cup {nodePath}
    /\ stack' = Append(stack, nodePath)
    /\ onStack' = onStack \cup {nodePath}
    /\ frames' = Append(frames, [nodePath |-> nodePath, next |-> 1])

\* Lines 230-233: the outer loop calls dfs on a key that is not visited.
CallRoot ==
    /\ pc = "roots"
    /\ root <= Len(adjacency)
    /\ adjacency[root].key \notin visited
    /\ EnterDfs(adjacency[root].key)
    /\ root' = root + 1
    /\ pc' = "dfs"
    /\ UNCHANGED <<args, aside, referencePaths, filePathById,
                   adjacency, results, seenCycles>>

\* SkipRoot that passes a key whether it is visited or not.
SkipRoot_AnyKey ==
    /\ pc = "roots"
    /\ root <= Len(adjacency)
    /\ root' = root + 1
    /\ UNCHANGED <<args, aside, pc, referencePaths, filePathById,
                   adjacency, results, seenCycles, visited, stack, onStack, frames>>

\* Lines 230-231: the outer loop passes a key that is visited.
SkipRoot ==
    /\ pc = "roots"
    /\ root <= Len(adjacency)
    /\ adjacency[root].key \in visited
    /\ root' = root + 1
    /\ UNCHANGED <<args, aside, pc, referencePaths, filePathById,
                   adjacency, results, seenCycles, visited, stack, onStack, frames>>

Top == frames[Len(frames)]

TopNeighbors == Neighbors(adjacency, Top.nodePath)

\* The frames with the loop of the innermost call moved to its next neighbor.
Advance == [frames EXCEPT ![Len(frames)].next = @ + 1]

\* DfsRecurse into a call of dfs that does not add its node to visited.
DfsRecurse_NotMarked ==
    /\ pc = "dfs"
    /\ Top.next <= Len(TopNeighbors)
    /\ LET neighbor == TopNeighbors[Top.next]
       IN  /\ neighbor \notin visited
           /\ stack' = Append(stack, neighbor)
           /\ onStack' = onStack \cup {neighbor}
           /\ frames' = Append(Advance, [nodePath |-> neighbor, next |-> 1])
    /\ UNCHANGED <<args, aside, pc, referencePaths, filePathById,
                   adjacency, results, seenCycles, visited, root>>

\* Lines 206-208: the neighbor is not visited, dfs recurses.
DfsRecurse ==
    /\ pc = "dfs"
    /\ Top.next <= Len(TopNeighbors)
    /\ LET neighbor == TopNeighbors[Top.next]
       IN  /\ neighbor \notin visited
           /\ visited' = visited \cup {neighbor}
           /\ stack' = Append(stack, neighbor)
           /\ onStack' = onStack \cup {neighbor}
           /\ frames' = Append(Advance, [nodePath |-> neighbor, next |-> 1])
    /\ UNCHANGED <<args, aside, pc, referencePaths, filePathById,
                   adjacency, results, seenCycles, root>>

\* DfsBackEdge with the key joined from cycleIds instead of normalized.
DfsBackEdge_RawKey ==
    /\ pc = "dfs"
    /\ Top.next <= Len(TopNeighbors)
    /\ LET neighbor == TopNeighbors[Top.next]
           cycleStartIndex == IndexOf(stack, neighbor)
           cycleIds == Append(SubSeq(stack, cycleStartIndex, Len(stack)), neighbor)
           normalized == normalizeCycle(cycleIds)
           cycleKey == join(cycleIds, "->")
       IN  /\ neighbor \in visited
           /\ neighbor \in onStack
           /\ IF cycleKey \notin seenCycles
              THEN /\ seenCycles' = seenCycles \cup {cycleKey}
                   /\ results' = Append(results, [id |-> cycleKey, cycle |-> normalized,
                                                  length |-> Len(normalized)])
              ELSE UNCHANGED <<seenCycles, results>>
    /\ frames' = Advance
    /\ UNCHANGED <<args, aside, pc, referencePaths, filePathById,
                   adjacency, visited, stack, onStack, root>>

\* Lines 210-222: the neighbor is on the stack, a cycle is closed.
DfsBackEdge ==
    /\ pc = "dfs"
    /\ Top.next <= Len(TopNeighbors)
    /\ LET neighbor == TopNeighbors[Top.next]
           cycleStartIndex == IndexOf(stack, neighbor)
           cycleIds == Append(SubSeq(stack, cycleStartIndex, Len(stack)), neighbor)
           normalized == normalizeCycle(cycleIds)
           cycleKey == join(normalized, "->")
       IN  /\ neighbor \in visited
           /\ neighbor \in onStack
           /\ IF cycleKey \notin seenCycles
              THEN /\ seenCycles' = seenCycles \cup {cycleKey}
                   /\ results' = Append(results, [id |-> cycleKey, cycle |-> normalized,
                                                  length |-> Len(normalized)])
              ELSE UNCHANGED <<seenCycles, results>>
    /\ frames' = Advance
    /\ UNCHANGED <<args, aside, pc, referencePaths, filePathById,
                   adjacency, visited, stack, onStack, root>>

\* Lines 206-210: the neighbor is visited and not on the stack.
DfsSkip ==
    /\ pc = "dfs"
    /\ Top.next <= Len(TopNeighbors)
    /\ LET neighbor == TopNeighbors[Top.next]
       IN  neighbor \in visited /\ neighbor \notin onStack
    /\ frames' = Advance
    /\ UNCHANGED <<args, aside, pc, referencePaths, filePathById,
                   adjacency, results, seenCycles, visited, stack, onStack, root>>

\* DfsReturn without onStack.delete(nodePath).
DfsReturn_KeepOnStack ==
    /\ pc = "dfs"
    /\ Top.next > Len(TopNeighbors)
    /\ stack' = SubSeq(stack, 1, Len(stack) - 1)
    /\ frames' = SubSeq(frames, 1, Len(frames) - 1)
    /\ pc' = IF Len(frames) = 1 THEN "roots" ELSE "dfs"
    /\ UNCHANGED <<args, aside, referencePaths, filePathById,
                   adjacency, results, seenCycles, visited, onStack, root>>

\* Lines 226-227: the loop of a dfs call is over, the call pops its node.
DfsReturn ==
    /\ pc = "dfs"
    /\ Top.next > Len(TopNeighbors)
    /\ stack' = SubSeq(stack, 1, Len(stack) - 1)
    /\ onStack' = onStack \ {Top.nodePath}
    /\ frames' = SubSeq(frames, 1, Len(frames) - 1)
    /\ pc' = IF Len(frames) = 1 THEN "roots" ELSE "dfs"
    /\ UNCHANGED <<args, aside, referencePaths, filePathById,
                   adjacency, results, seenCycles, visited, root>>

\* Line 236.
ReturnResults ==
    /\ pc = "roots"
    /\ root > Len(adjacency)
    /\ pc' = "done"
    /\ UNCHANGED <<args, aside, referencePaths, filePathById,
                   adjacency, results, seenCycles, visited, stack, onStack, frames, root>>

(***************************************************************************)
(* dead-code.ts                                                            *)
(***************************************************************************)

DeadCode_DEFAULT_EXCLUDE_PATTERNS == <<
    "**/node_modules/**", "**/dist/**", "**/build/**", "**/.git/**",
    "**/vendor/**", "**/target/**",
    "**/*.test.ts", "**/*.test.tsx", "**/*.test.js", "**/*.test.jsx",
    "**/*.spec.ts", "**/*.spec.tsx", "**/*.spec.js", "**/*.spec.jsx",
    "**/__tests__/**", "**/__mocks__/**" >>

ENTRY_POINT_PATTERNS == <<
    "**/index.ts", "**/index.js", "**/main.ts", "**/main.js", "**/app.ts", "**/app.js",
    "**/*.test.*", "**/*.spec.*", "**/__tests__/**" >>

ENTRY_POINT_FUNCTION_NAMES == <<
    "main", "run", "start", "init", "setup", "bootstrap", "default", "handler",
    "GET", "POST", "PUT", "DELETE", "PATCH" >>

ENTRY_POINT_GLOBS == GlobParts(ENTRY_POINT_PATTERNS)

isEntryPointFile(filePath) ==
    LET file == Split(filePath, "/")
    IN  \E i \in 1..Len(ENTRY_POINT_GLOBS) : MatchParts(filePath, file, ENTRY_POINT_GLOBS[i])

isEntryPointFunction(name) ==
    LET lowerName == toLowerCase(name)
    IN  \E i \in 1..Len(ENTRY_POINT_FUNCTION_NAMES) :
            lowerName = toLowerCase(ENTRY_POINT_FUNCTION_NAMES[i])

DeadCode_DEFAULT_EXCLUDE_GLOBS == GlobParts(DeadCode_DEFAULT_EXCLUDE_PATTERNS)

DeadCode_shouldIgnoreFile(filePath, patterns) ==
    LET file == Split(filePath, "/")
    IN  \/ \E i \in 1..Len(DeadCode_DEFAULT_EXCLUDE_GLOBS) :
              MatchParts(filePath, file, DeadCode_DEFAULT_EXCLUDE_GLOBS[i])
        \/ \E i \in 1..Len(patterns) :
              MatchParts(filePath, file, Split(patterns[i], "/"))

\* CalledFunctionIds with the substring test of isDependencyRelationship.
CalledFunctionIds_Substring(rels) ==
    {rels[i].endNode : i \in {j \in 1..Len(rels) : includes(toLowerCase(rels[j].type), "call")}}

\* Line 107-108: the end nodes of the relationships of type "calls".
CalledFunctionIds(rels) ==
    {rels[i].endNode : i \in {j \in 1..Len(rels) : rels[j].type = "calls"}}

\* Lines 113-143: the body of the loop for one function node; TRUE when the
\* node is pushed.
IsDeadCode(node, rels, patterns) ==
    LET filePath == IF node.filePath # "" THEN node.filePath ELSE node.file
        name == IF node.name # "" THEN node.name ELSE "anonymous"
    IN  /\ node.id \notin CalledFunctionIds(rels)
        /\ ~DeadCode_shouldIgnoreFile(filePath, patterns)
        /\ ~isEntryPointFile(filePath)
        /\ ~isEntryPointFunction(name)
        /\ ~(node.exported = TRUE \/ node.isExported = TRUE)

DeadCodeEntry(node) ==
    [id |-> node.id,
     name |-> IF node.name # "" THEN node.name ELSE "anonymous",
     filePath |-> IF node.filePath # "" THEN node.filePath ELSE node.file,
     startLine |-> node.startLine,
     endLine |-> node.endLine]

RECURSIVE findDeadCodeUpTo(_, _, _, _)
findDeadCodeUpTo(nodeList, rels, patterns, i) ==
    IF i = 0 THEN <<>>
    ELSE LET before == findDeadCodeUpTo(nodeList, rels, patterns, i - 1)
         IN  IF "Function" \in nodeList[i].labels /\ IsDeadCode(nodeList[i], rels, patterns)
             THEN Append(before, DeadCodeEntry(nodeList[i]))
             ELSE before

findDeadCode(nodeList, rels, patterns) == findDeadCodeUpTo(nodeList, rels, patterns, Len(nodeList))

\* A call of findDeadCode on the graph, made when no call of
\* findCircularDependencies is running.
FindDeadCode ==
    /\ dpc = "start"
    /\ pc \in {"idle", "done"}
    /\ deadCode' = findDeadCode(nodes, relationships, ignorePatterns)
    /\ dpc' = "done"
    /\ UNCHANGED <<args, pc, referencePaths, filePathById, adjacency, results, seenCycles,
                   visited, stack, onStack, frames, root, queue, earlier, unit, run>>

(***************************************************************************)
(* formatPrComment of circular-deps.ts and of dead-code.ts                 *)
(***************************************************************************)

\* The number of rows a comment shows (the literal 50 of lines 252, 267, 268).
ROW_LIMIT == 50

\* Lines 254-255: one row of the table, the cycle closed by its first element.
CycleRow(cycle, index) ==
    "| " \o ToString(index) \o " | "
         \o join(Append(cycle.cycle, cycle.cycle[1]), " -> ") \o " |"

\* formatPrComment with the note added from ROW_LIMIT results on.
formatPrComment_NoteAtLimit(cycles) ==
    IF Len(cycles) = 0
    THEN "## Circular Dependency Hunter\n\nNo circular dependencies found! Your codebase is clean."
    ELSE LET n == Len(cycles)
             shown == SubSeq(cycles, 1, IF n < ROW_LIMIT THEN n ELSE ROW_LIMIT)
             rows == join([i \in 1..Len(shown) |-> CycleRow(shown[i], i)], "\n")
             table == "## Circular Dependency Hunter\n\nFound **" \o ToString(n)
                      \o "** circular dependenc" \o (IF n = 1 THEN "y" ELSE "ies")
                      \o ":\n\n| # | Cycle |\n|---|-------|\n" \o rows
             noted == IF n >= ROW_LIMIT
                      THEN table \o "\n\n_...and " \o ToString(n - ROW_LIMIT)
                                 \o " more. See action output for full list._"
                      ELSE table
         IN  noted \o "\n\n---\n_Powered by [Supermodel](https://supermodeltools.com) graph analysis_"

formatPrComment(cycles) ==
    IF Len(cycles) = 0
    THEN "## Circular Dependency Hunter\n\nNo circular dependencies found! Your codebase is clean."
    ELSE LET n == Len(cycles)
             shown == SubSeq(cycles, 1, IF n < ROW_LIMIT THEN n ELSE ROW_LIMIT)
             rows == join([i \in 1..Len(shown) |-> CycleRow(shown[i], i)], "\n")
             table == "## Circular Dependency Hunter\n\nFound **" \o ToString(n)
                      \o "** circular dependenc" \o (IF n = 1 THEN "y" ELSE "ies")
                      \o ":\n\n| # | Cycle |\n|---|-------|\n" \o rows
             noted == IF n > ROW_LIMIT
                      THEN table \o "\n\n_...and " \o ToString(n - ROW_LIMIT)
                                 \o " more. See action output for full list._"
                      ELSE table
         IN  noted \o "\n\n---\n_Powered by [Supermodel](https://supermodeltools.com) graph analysis_"

\* The literal 50 of lines 162, 180, 181 of dead-code.ts.
DeadCode_ROW_LIMIT == 50

\* Lines 164-168 of dead-code.ts; a startLine of 0 is an absent one. The
\* backquotes around the name, which a TLA+ string cannot hold, are written '.
DeadCodeRow(dc) ==
    LET lineInfo == IF dc.startLine # 0 THEN "L" \o ToString(dc.startLine) ELSE ""
        fileLink == IF dc.startLine # 0 THEN dc.filePath \o "#L" \o ToString(dc.startLine)
                    ELSE dc.filePath
    IN  "| '" \o dc.name \o "' | " \o fileLink \o " | " \o lineInfo \o " |"

DeadCode_formatPrComment(list) ==
    IF Len(list) = 0
    THEN "## Dead Code Hunter\n\nNo dead code found! Your codebase is clean."
    ELSE LET n == Len(list)
             shown == SubSeq(list, 1, IF n < DeadCode_ROW_LIMIT THEN n ELSE DeadCode_ROW_LIMIT)
             rows == join([i \in 1..Len(shown) |-> DeadCodeRow(shown[i])], "\n")
             table == "## Dead Code Hunter\n\nFound **" \o ToString(n)
                      \o "** potentially unused function" \o (IF n = 1 THEN "" ELSE "s")
                      \o ":\n\n| Function | File | Line |\n|----------|------|------|\n" \o rows
             noted == IF n > DeadCode_ROW_LIMIT
                      THEN table \o "\n\n_...and " \o ToString(n - DeadCode_ROW_LIMIT)
                                 \o " more. See action output for full list._"
                      ELSE table
         IN  noted \o "\n\n---\n_Powered by [Supermodel](https://supermodeltools.com) graph analysis_"

(***************************************************************************)
(* The callers: an analysis of one graph, a second analysis of the same    *)
(* graph with other arguments, a helper applied on its own.                *)
(***************************************************************************)

\* The analyses are repeated with the next arguments of the queue; every call
\* starts from fresh local state (lines 140, 163, 173, 193-197).
NextCall ==
    /\ pc \in {"idle", "done"}
    /\ dpc \in {"idle", "done"}
    /\ Len(queue) > 0
    /\ earlier' = Append(earlier, [nodes |-> nodes, relationships |-> relationships,
                                   ignorePatterns |-> ignorePatterns,
                                   results |-> results, deadCode |-> deadCode])
    /\ nodes' = queue[1].nodes
    /\ relationships' = queue[1].relationships
    /\ ignorePatterns' = queue[1].ignorePatterns
    /\ queue' = Tail(queue)
    /\ pc' = IF pc = "done" THEN "start" ELSE "idle"
    /\ dpc' = IF dpc = "done" THEN "start" ELSE "idle"
    /\ referencePaths' = {}
    /\ filePathById' = <<>>
    /\ adjacency' = <<>>
    /\ results' = <<>>
    /\ seenCycles' = {}
    /\ visited' = {}
    /\ stack' = <<>>
    /\ onStack' = {}
    /\ frames' = <<>>
    /\ root' = 1
    /\ deadCode' = <<>>
    /\ UNCHANGED <<unit, run>>

\* normalizeCycle applied to the argument.
ApplyNormalizeCycle ==
    /\ unit.fn = "normalizeCycle"
    /\ ~unit.applied
    /\ unit' = [unit EXCEPT !.applied = TRUE, !.out = normalizeCycle(unit.arg)]
    /\ UNCHANGED <<args, pc, referencePaths, filePathById, adjacency, results, seenCycles,
                   visited, stack, onStack, frames, root, dpc, deadCode, queue, earlier, run>>

\* resolveFilePath applied to the argument, and what line 169 keeps for a node
\* with that path.
ApplyResolveFilePath ==
    /\ unit.fn = "resolveFilePath"
    /\ ~unit.applied
    /\ unit' = [unit EXCEPT
                   !.applied = TRUE,
                   !.out = [resolved |-> resolveFilePath(unit.arg.candidate, unit.arg.referencePaths),
                            used |-> MapGet(FilePathById(<<[id |-> "n", labels |-> {}, filePath |-> unit.arg.candidate,
                                                           path |-> "", file |-> "", name |-> ""]>>,
                                                         <<>>, unit.arg.referencePaths, 1), "n")]]
    /\ UNCHANGED <<args, pc, referencePaths, filePathById, adjacency, results, seenCycles,
                   visited, stack, onStack, frames, root, dpc, deadCode, queue, earlier, run>>

\* One of the two formatPrComment functions applied to the argument.
ApplyFormatPrComment ==
    /\ unit.fn \in {"formatPrComment", "DeadCode_formatPrComment"}
    /\ ~unit.applied
    /\ unit' = [unit EXCEPT
                   !.applied = TRUE,
                   !.out = IF unit.fn = "formatPrComment" THEN formatPrComment(unit.arg)
                           ELSE DeadCode_formatPrComment(unit.arg)]
    /\ UNCHANGED <<args, pc, referencePaths, filePathById, adjacency, results, seenCycles,
                   visited, stack, onStack, frames, root, dpc, deadCode, queue, earlier, run>>

(***************************************************************************)
(* index.ts: run(), one action per stretch between two awaits              *)
(***************************************************************************)

\* A string between double quotes, as JSON.stringify writes one that holds
\* no quote and no backslash (a normalized path holds no backslash).
Quoted(str) == "\"" \o str \o "\""

\* JSON.stringify of one CircularDependencyResult.
StringifyCycle(r) ==
    "{\"id\":" \o Quoted(r.id)
        \o ",\"cycle\":[" \o join([i \in 1..Len(r.cycle) |-> Quoted(r.cycle[i])], ",")
        \o "],\"length\":" \o ToString(r.length) \o "}"

\* Line 124: JSON.stringify(cycles).
Stringify(cycles) ==
    "[" \o join([k \in 1..Len(cycles) |-> StringifyCycle(cycles[k])], ",") \o "]"

\* Lines 120 and 151: the message on the number of cycles.
FoundMessage(n) ==
    "Found " \o ToString(n) \o " circular dependenc" \o (IF n = 1 THEN "y" ELSE "ies")

\* A throw inside the try block: control passes to the catch clause.
Throw(isError, message) ==
    run' = [run EXCEPT !.pc = "catch",
                       !.error = [thrown |-> TRUE, isError |-> isError, message |-> message]]

\* Lines 44-55: the inputs are read; a missing required input throws.
RunReadInputs ==
    /\ run.pc = "inputs"
    /\ \/ run' = [run EXCEPT !.pc = "graph"]
       \/ Throw(TRUE, "Input required and not supplied: supermodel-api-key")
    /\ UNCHANGED <<args, pc, referencePaths, filePathById, adjacency, results, seenCycles,
                   visited, stack, onStack, frames, root, dpc, deadCode, queue, earlier, unit>>

\* Lines 57-118: the archive is made and the graph is fetched, which can
\* throw an Error or reject with another value; else findCircularDependencies
\* is called on the nodes and relationships of the response.
RunFetchGraph ==
    /\ run.pc = "graph"
    /\ \/ /\ run' = [run EXCEPT !.pc = "analyze"]
          /\ pc' = "start"
       \/ /\ Throw(TRUE, "Response returned an error code")
          /\ UNCHANGED pc
       \/ /\ Throw(FALSE, "")
          /\ UNCHANGED pc
    /\ UNCHANGED <<args, referencePaths, filePathById, adjacency, results, seenCycles,
                   visited, stack, onStack, frames, root, dpc, deadCode, queue, earlier, unit>>

\* Lines 118-124: findCircularDependencies has returned; the two outputs are set.
RunSetOutputs ==
    /\ run.pc = "analyze"
    /\ pc = "done"
    /\ run' = [run EXCEPT
                  !.pc = "comment",
                  !.outputs = run.outputs
                      \o <<[name |-> "circular-dependency-count", value |-> ToString(Len(results))],
                           [name |-> "circular-dependency-json", value |-> Stringify(results)]>>]
    /\ UNCHANGED <<args, pc, referencePaths, filePathById, adjacency, results, seenCycles,
                   visited, stack, onStack, frames, root, dpc, deadCode, queue, earlier, unit>>

\* Lines 127-144: the comment is posted on a pull request when a token is
\* there; the request can throw.
RunComment ==
    /\ run.pc = "comment"
    /\ IF run.commentOnPr /\ run.pullRequest /\ run.token
       THEN \/ run' = [run EXCEPT !.pc = "cleanup",
                                   !.comments = Append(run.comments, formatPrComment(results))]
            \/ Throw(TRUE, "Resource not accessible by integration")
       ELSE run' = [run EXCEPT !.pc = "cleanup"]
    /\ UNCHANGED <<args, pc, referencePaths, filePathById, adjacency, results, seenCycles,
                   visited, stack, onStack, frames, root, dpc, deadCode, queue, earlier, unit>>

\* Line 147: the archive is removed, which can throw.
RunCleanup ==
    /\ run.pc = "cleanup"
    /\ \/ run' = [run EXCEPT !.pc = "decide"]
       \/ Throw(TRUE, "ENOENT: no such file or directory, unlink")
    /\ UNCHANGED <<args, pc, referencePaths, filePathById, adjacency, results, seenCycles,
                   visited, stack, onStack, frames, root, dpc, deadCode, queue, earlier, unit>>

\* RunDecide without the test of failOnCircularDeps.
RunDecide_AnyCycleFails ==
    /\ run.pc = "decide"
    /\ run' = [run EXCEPT
                  !.pc = "end",
                  !.failed = IF Len(results) > 0
                             THEN Append(run.failed, FoundMessage(Len(results)))
                             ELSE run.failed]
    /\ UNCHANGED <<args, pc, referencePaths, filePathById, adjacency, results, seenCycles,
                   visited, stack, onStack, frames, root, dpc, deadCode, queue, earlier, unit>>

\* Lines 150-152: core.setFailed when cycles were found and the input asks for it.
RunDecide ==
    /\ run.pc = "decide"
    /\ run' = [run EXCEPT
                  !.pc = "end",
                  !.failed = IF Len(results) > 0 /\ run.failOnCircularDeps
                             THEN Append(run.failed, FoundMessage(Len(results)))
                             ELSE run.failed]
    /\ UNCHANGED <<args, pc, referencePaths, filePathById, adjacency, results, seenCycles,
                   visited, stack, onStack, frames, root, dpc, deadCode, queue, earlier, unit>>

\* Lines 154-169: the catch clause calls core.setFailed with the message of
\* the error.
RunCatch ==
    /\ run.pc = "catch"
    /\ run' = [run EXCEPT
                  !.pc = "end",
                  !.failed = Append(run.failed, IF run.error.isError THEN run.error.message
                                                ELSE "An unknown error occurred")]
    /\ UNCHANGED <<args, pc, referencePaths, filePathById, adjacency, results, seenCycles,
                   visited, stack, onStack, frames, root, dpc, deadCode, queue, earlier, unit>>

(***************************************************************************)
(* Inputs                                                                  *)
(***************************************************************************)

\* The longest relationships array of the graphs on three files.
MaxRels == 4

MkNode(id, labels, filePath) ==
    [id |-> id, labels |-> labels, filePath |-> filePath, path |-> "", file |-> "",
     name |-> "", exported |-> FALSE, isExported |-> FALSE, startLine |-> 0, endLine |-> 0]

MkRel(type, startNode, endNode) ==
    [id |-> "r", type |-> type, startNode |-> startNode, endNode |-> endNode]

\* The sequences without repetition of at most n elements of S.
DistinctSeqs(S, n) ==
    UNION {{s \in [1..k -> S] : \A i, j \in 1..k : i # j => s[i] # s[j]} : k \in 0..n}

Orderings(S) == {s \in DistinctSeqs(S, Cardinality(S)) : Len(s) = Cardinality(S)}

NoUnit == [fn |-> "none", arg |-> <<>>, applied |-> FALSE, out |-> <<>>]

\* No run of the action: the functions are called on their own.
NoRun == [pc |-> "none"]

\* The local state before a call, outside a run of the action.
Fresh ==
    /\ run = NoRun
    /\ referencePaths = {}
    /\ filePathById = <<>>
    /\ adjacency = <<>>
    /\ results = <<>>
    /\ seenCycles = {}
    /\ visited = {}
    /\ stack = <<>>
    /\ onStack = {}
    /\ frames = <<>>
    /\ root = 1
    /\ deadCode = <<>>
    /\ earlier = <<>>

\* Three files that import each other in any way, listed in any order.
EngineNodes == {MkNode("a", {"File"}, "a.ts"), MkNode("b", {"File"}, "b.ts"),
                MkNode("c", {"File"}, "c.ts")}

EngineEdges == {MkRel("imports", s, e) : s, e \in {"a", "b", "c"}} \
               {MkRel("imports", s, s) : s \in {"a", "b", "c"}}

InitEngine ==
    /\ nodes \in Orderings(EngineNodes)
    /\ relationships \in DistinctSeqs(EngineEdges, MaxRels)
    /\ ignorePatterns = <<>>
    /\ pc = "start"
    /\ dpc = "idle"
    /\ queue = <<>>
    /\ unit = NoUnit
    /\ Fresh

\* Two files joined by one relationship each way, of any two types.
RelTypes == {"imports", "dependsOn", "calls", "Calls", "call", "importCalls", "USES",
             "reuse", "extends", ""}

InitTypes ==
    /\ nodes = <<MkNode("a", {"File"}, "src/a.ts"), MkNode("b", {"File"}, "src/b.ts")>>
    /\ \E t1, t2 \in RelTypes : relationships = <<MkRel(t1, "a", "b"), MkRel(t2, "b", "a")>>
    /\ ignorePatterns = <<>>
    /\ pc = "start"
    /\ dpc = "idle"
    /\ queue = <<>>
    /\ unit = NoUnit
    /\ Fresh

\* Nodes of every kind the builder distinguishes: a file, a node that names the
\* same file without its extension, a test file whose path has a backslash, a
\* module under gen/, the index file of a directory, a node without properties.
RichPool == <<
    MkNode("x", {"File"}, "x.ts"),
    [MkNode("y", {"Function"}, "") EXCEPT !.path = "x"],
    MkNode("t", {"File"}, "__tests__\\t.ts"),
    [MkNode("g", {"Module"}, "") EXCEPT !.file = "gen/g.ts"],
    MkNode("i", {"File"}, "x/index.ts"),
    MkNode("n.ts", {}, "") >>

\* Three nodes of the pool, in the order of the pool or in the opposite order.
RichNodeLists ==
    LET P == 1..Len(RichPool)
        picks == {<<i, j, k>> : i \in P, j \in P, k \in P}
    IN  {<<RichPool[t[1]], RichPool[t[2]], RichPool[t[3]]>> :
            t \in {u \in picks : (u[1] < u[2] /\ u[2] < u[3]) \/ (u[1] > u[2] /\ u[2] > u[3])}}

\* At most two import relationships between the nodes of the list; the end
\* node may be an id that no node has.
RichRelLists(nodeList) ==
    LET ids == {nodeList[i].id : i \in 1..Len(nodeList)}
        rels == {MkRel("imports", s, e) : s \in ids, e \in ids \cup {"zz"}}
    IN  {<<>>} \cup {<<r>> : r \in rels} \cup {<<r1, r2>> : r1 \in rels, r2 \in rels}

PatternLists == {<<>>, <<"gen/**", "x.*">>}

InitRich ==
    /\ nodes \in RichNodeLists
    /\ relationships \in RichRelLists(nodes)
    /\ ignorePatterns \in PatternLists
    /\ pc = "start"
    /\ dpc = "idle"
    /\ queue = <<>>
    /\ unit = NoUnit
    /\ Fresh

Init == InitEngine \/ InitTypes \/ InitRich

Next ==
    \/ CollectReferencePaths
    \/ MapNodes
    \/ BuildAdjacency
    \/ CallRoot
    \/ SkipRoot
    \/ DfsRecurse
    \/ DfsBackEdge
    \/ DfsSkip
    \/ DfsReturn
    \/ ReturnResults

Spec == Init /\ [][Next]_vars

(***************************************************************************)
(* findDeadCode on one graph                                               *)
(***************************************************************************)

\* A function node and the ways it can differ in what findDeadCode reads.
DeadBase(id) ==
    [MkNode(id, {"Function"}, "src/f.ts") EXCEPT !.name = "helper", !.startLine = 3, !.endLine = 9]

DeadVariants(id) ==
    LET base == DeadBase(id)
    IN  {base,
         [base EXCEPT !.labels = {}],
         [base EXCEPT !.labels = {"File"}],
         [base EXCEPT !.labels = {"Method", "Function"}],
         [base EXCEPT !.filePath = "src/__tests__/f.ts"],
         [base EXCEPT !.filePath = "gen/f.ts"],
         [base EXCEPT !.filePath = "src/index.ts"],
         [base EXCEPT !.filePath = "main.js"],
         [base EXCEPT !.filePath = "src/f.test.mjs"],
         [base EXCEPT !.filePath = "", !.file = "src/app.ts"],
         [base EXCEPT !.filePath = "", !.path = "src/index.ts"],
         [base EXCEPT !.name = "Main"],
         [base EXCEPT !.name = "get"],
         [base EXCEPT !.name = "handlers"],
         [base EXCEPT !.name = ""],
         [base EXCEPT !.exported = TRUE],
         [base EXCEPT !.isExported = TRUE]}

DeadRelLists ==
    LET rels == {MkRel(t, "zz", e) : t \in {"calls", "Calls", "imports"}, e \in {"f", "g"}}
    IN  {<<>>} \cup {<<r>> : r \in rels} \cup {<<r1, r2>> : r1 \in rels, r2 \in rels}

InitDead ==
    /\ \E n1 \in DeadVariants("f"), n2 \in DeadVariants("g") : nodes = <<n1, n2>>
    /\ relationships \in DeadRelLists
    /\ ignorePatterns \in {<<>>, <<"gen/**">>}
    /\ pc = "idle"
    /\ dpc = "start"
    /\ queue = <<>>
    /\ unit = NoUnit
    /\ Fresh

NextDead == FindDeadCode

SpecDead == InitDead /\ [][NextDead]_vars

(***************************************************************************)
(* Two analyses of one graph                                               *)
(***************************************************************************)

EngineNodeList == <<MkNode("a", {"File"}, "a.ts"), MkNode("b", {"File"}, "b.ts"),
                    MkNode("c", {"File"}, "c.ts")>>

\* The graph on three files, then the same graph with its nodes in any order
\* and its relationships in the opposite order.
InitReordered ==
    /\ nodes = EngineNodeList
    /\ relationships \in DistinctSeqs(EngineEdges, MaxRels)
    /\ ignorePatterns = <<>>
    /\ \E second \in Orderings(EngineNodes) :
          queue = <<[nodes |-> second, relationships |-> Reverse(relationships),
                     ignorePatterns |-> <<>>]>>
    /\ pc = "start"
    /\ dpc = "idle"
    /\ unit = NoUnit
    /\ Fresh

\* A file, a node that names it without extension, the index file of the
\* directory of the same name, another file, and two functions.
MoreNodeList == <<
    [MkNode("y", {"Function"}, "") EXCEPT !.path = "src\\x"],
    MkNode("x", {"File"}, "src/x.ts"),
    MkNode("i", {"File"}, "src/x/index.ts"),
    MkNode("w", {"File"}, "lib/w.ts"),
    [MkNode("f", {"Function"}, "gen/f.ts") EXCEPT !.name = "made"],
    [MkNode("h", {"Function"}, "lib/h.ts") EXCEPT !.name = "helper"] >>

MoreRelLists ==
    LET files == {"y", "x", "i", "w"}
        rels == ({MkRel("imports", s, e) : s \in files, e \in files} \
                 {MkRel("imports", s, s) : s \in files})
                \cup {MkRel("calls", "w", e) : e \in {"f", "h"}}
    IN  {<<>>} \cup {<<r>> : r \in rels} \cup {<<r1, r2>> : r1 \in rels, r2 \in rels}

MorePatterns == {<<>>, <<"src/x.*">>, <<"gen/**">>}

\* One graph analysed with the patterns P, then with the patterns P ++ Q.
InitMorePatterns ==
    /\ nodes = MoreNodeList
    /\ relationships \in MoreRelLists
    /\ ignorePatterns \in MorePatterns
    /\ \E Q \in MorePatterns :
          queue = <<[nodes |-> nodes, relationships |-> relationships,
                     ignorePatterns |-> ignorePatterns \o Q]>>
    /\ pc = "start"
    /\ dpc = "start"
    /\ unit = NoUnit
    /\ Fresh

InitPair == InitReordered \/ InitMorePatterns

NextPair == Next \/ FindDeadCode \/ NextCall

SpecPair == InitPair /\ [][NextPair]_vars

(***************************************************************************)
(* normalizeCycle on its own                                               *)
(***************************************************************************)

\* The longest sequence of paths normalizeCycle is applied to (without the
\* closing repeat).
MaxCycleLen == 3

NormPaths == {"a", "b", "b->b", "src/a", "src/a.ts"}

InitNormalize ==
    /\ \E c \in DistinctSeqs(NormPaths, MaxCycleLen) :
          \/ unit = [fn |-> "normalizeCycle", arg |-> c, applied |-> FALSE, out |-> <<>>]
          \/ /\ Len(c) > 0
             /\ unit = [fn |-> "normalizeCycle", arg |-> Append(c, c[1]),
                        applied |-> FALSE, out |-> <<>>]
    /\ nodes = <<>>
    /\ relationships = <<>>
    /\ ignorePatterns = <<>>
    /\ pc = "idle"
    /\ dpc = "idle"
    /\ queue = <<>>
    /\ Fresh

NextNormalize == ApplyNormalizeCycle

SpecNormalize == InitNormalize /\ [][NextNormalize]_vars

(***************************************************************************)
(* Both analyses of a graph whose nodes and relationships lack fields      *)
(***************************************************************************)

\* A File node and a Function node without properties, a node without labels
\* and properties, a node with properties and no labels, a complete File node.
LackingPool == <<
    MkNode("a.ts", {"File"}, ""),
    MkNode("b.ts", {}, ""),
    MkNode("f", {"Function"}, ""),
    [MkNode("g", {}, "src/g.ts") EXCEPT !.name = "helper"],
    MkNode("c", {"File"}, "c.ts") >>

\* At most three nodes of the pool, in its order.
LackingNodeLists ==
    LET P == 1..Len(LackingPool)
        picks == {t \in DistinctSeqs(P, 3) : \A i \in 1..(Len(t) - 1) : t[i] < t[i + 1]}
    IN  {[i \in 1..Len(t) |-> LackingPool[t[i]]] : t \in picks}

\* At most two relationships: without type or of type imports between the
\* nodes and an id that no node has, of type calls to a node.
LackingRelLists(nodeList) ==
    LET ids == {nodeList[i].id : i \in 1..Len(nodeList)}
        ends == ids \cup {"zz"}
        pairs == {p \in ends \X ends : p[1] # p[2]}
        rels == {MkRel(t, p[1], p[2]) : t \in {"", "imports"}, p \in pairs}
                \cup {MkRel("calls", "zz", e) : e \in ids}
    IN  {<<>>} \cup {<<r>> : r \in rels} \cup {<<r1, r2>> : r1 \in rels, r2 \in rels}

InitLacking ==
    /\ nodes \in LackingNodeLists
    /\ relationships \in LackingRelLists(nodes)
    /\ ignorePatterns = <<>>
    /\ pc = "start"
    /\ dpc = "start"
    /\ queue = <<>>
    /\ unit = NoUnit
    /\ Fresh

NextLacking == Next \/ FindDeadCode

SpecLacking == InitLacking /\ [][NextLacking]_vars

(***************************************************************************)
(* A run of the action                                                     *)
(***************************************************************************)

\* The longest relationships array of the graph a run analyses.
MaxRunRels == 2

\* No step of the run has thrown.
NoError == [thrown |-> FALSE, isError |-> FALSE, message |-> ""]

InitRun ==
    /\ nodes = EngineNodeList
    /\ relationships \in DistinctSeqs(EngineEdges, MaxRunRels)
    /\ ignorePatterns = <<>>
    /\ pc = "idle"
    /\ dpc = "idle"
    /\ queue = <<>>
    /\ unit = NoUnit
    /\ \E failOn \in BOOLEAN, commentOnPr \in BOOLEAN, pullRequest \in BOOLEAN, token \in BOOLEAN :
          run = [pc |-> "inputs", failOnCircularDeps |-> failOn, commentOnPr |-> commentOnPr,
                 pullRequest |-> pullRequest, token |-> token,
                 outputs |-> <<>>, comments |-> <<>>, failed |-> <<>>, error |-> NoError]
    /\ referencePaths = {}
    /\ filePathById = <<>>
    /\ adjacency = <<>>
    /\ results = <<>>
    /\ seenCycles = {}
    /\ visited = {}
    /\ stack = <<>>
    /\ onStack = {}
    /\ frames = <<>>
    /\ root = 1
    /\ deadCode = <<>>
    /\ earlier = <<>>

NextRun ==
    \/ Next
    \/ RunReadInputs
    \/ RunFetchGraph
    \/ RunSetOutputs
    \/ RunComment
    \/ RunCleanup
    \/ RunDecide
    \/ RunCatch

SpecRun == InitRun /\ [][NextRun]_vars

(***************************************************************************)
(* resolveFilePath on its own                                              *)
(***************************************************************************)

\* Candidates with and without an extension, with a backslash, with a dot in
\* a directory name.
ResolveCandidatePool == {"src/x", "src\\x", "src/x.ts", "src/x.d", "lib.v2/x", "src\\x.js"}

ResolveKnownPool == {"src/x", "src/x.ts", "src/x.tsx", "src/x.js", "src/x.cjs", "src/x.d.ts",
                     "src/x/index.ts", "src/x/index.js", "lib.v2/x/index.mjs"}

InitResolve ==
    /\ \E c \in ResolveCandidatePool, known \in SUBSET ResolveKnownPool :
          unit = [fn |-> "resolveFilePath", arg |-> [candidate |-> c, referencePaths |-> known],
                  applied |-> FALSE, out |-> <<>>]
    /\ nodes = <<>>
    /\ relationships = <<>>
    /\ ignorePatterns = <<>>
    /\ pc = "idle"
    /\ dpc = "idle"
    /\ queue = <<>>
    /\ Fresh

NextResolve == ApplyResolveFilePath

SpecResolve == InitResolve /\ [][NextResolve]_vars

(***************************************************************************)
(* The two formatPrComment functions on their own                          *)
(***************************************************************************)

\* The longest list of results a comment is formatted for.
MaxFormatLen == 52

FormatCycles == <<
    [id |-> "a.ts->b.ts", cycle |-> <<"a.ts", "b.ts">>, length |-> 2],
    [id |-> "lib/w.ts->src/x/index.ts->src/y.ts",
     cycle |-> <<"lib/w.ts", "src/x/index.ts", "src/y.ts">>, length |-> 3],
    [id |-> "b.ts->c.ts", cycle |-> <<"b.ts", "c.ts">>, length |-> 2] >>

FormatDeadCode == <<
    [id |-> "f", name |-> "helper", filePath |-> "src/f.ts", startLine |-> 3, endLine |-> 9],
    [id |-> "g", name |-> "anonymous", filePath |-> "", startLine |-> 0, endLine |-> 0],
    [id |-> "h", name |-> "made", filePath |-> "lib/h.ts", startLine |-> 12, endLine |-> 0] >>

\* The list of n results that takes the entries of the pool in turn, from
\* the entry after the first one.
FormatList(pool, n, first) == [k \in 1..n |-> pool[((k + first) % Len(pool)) + 1]]

InitFormat ==
    /\ \E n \in 0..MaxFormatLen, first \in 0..2 :
          \/ unit = [fn |-> "formatPrComment", arg |-> FormatList(FormatCycles, n, first),
                     applied |-> FALSE, out |-> ""]
          \/ unit = [fn |-> "DeadCode_formatPrComment", arg |-> FormatList(FormatDeadCode, n, first),
                     applied |-> FALSE, out |-> ""]
    /\ nodes = <<>>
    /\ relationships = <<>>
    /\ ignorePatterns = <<>>
    /\ pc = "idle"
    /\ dpc = "idle"
    /\ queue = <<>>
    /\ Fresh

NextFormat == ApplyFormatPrComment

SpecFormat == InitFormat /\ [][NextFormat]_vars

(***************************************************************************)
(* Properties                                                              *)
(***************************************************************************)

Built == pc \in {"roots", "dfs", "done"}

AdjacencyKeySet == {adjacency[i].key : i \in 1..Len(adjacency)}

\* The position after i on a cycle of n elements.
After(i, n) == (i % n) + 1

\* C1: every reported cycle has a length of at least 2 that is the number of
\* its elements, contains no path twice and does not end with its first element.
C1_CycleShape ==
    \A k \in 1..Len(results) :
        LET r == results[k]
        IN  /\ r.length >= 2
            /\ r.length = Len(r.cycle)
            /\ \A i, j \in 1..Len(r.cycle) : i # j => r.cycle[i] # r.cycle[j]
            /\ r.cycle[Len(r.cycle)] # r.cycle[1]

\* A finished analysis that reported two cycles, one of them of three files.
C1_Witness ==
    /\ pc = "done"
    /\ Len(results) >= 2
    /\ \E k \in 1..Len(results) : results[k].length = 3

\* C2: every reported cycle follows dependency edges in the reported order:
\* each element has an adjacency edge to the next and the last to the first.
C2_ReportedOrderFollowsEdges ==
    \A k \in 1..Len(results) :
        LET c == results[k].cycle
        IN  \A i \in 1..Len(c) : c[After(i, Len(c))] \in Range(Neighbors(adjacency, c[i]))

\* The elementary cycles of the adjacency graph, each from every start.
ElementaryCycles(adj) ==
    LET keys == {adj[i].key : i \in 1..Len(adj)}
    IN  {c \in DistinctSeqs(keys, Cardinality(keys)) :
            /\ Len(c) >= 2
            /\ \A i \in 1..Len(c) : c[After(i, Len(c))] \in Range(Neighbors(adj, c[i]))}

\* C3: when the analysis returns, every elementary cycle of the adjacency
\* graph is reported in its canonical form.
C3_AllElementaryCyclesReported ==
    pc = "done" =>
        \A c \in ElementaryCycles(adjacency) :
            \E k \in 1..Len(results) : results[k].cycle = normalizeCycle(c)

\* C8: no adjacency set contains its own key, and no reported cycle has one element.
C8_NoSelfLoop ==
    /\ Built => \A i \in 1..Len(adjacency) : adjacency[i].key \notin Range(adjacency[i].value)
    /\ \A k \in 1..Len(results) : results[k].length # 1 /\ Len(results[k].cycle) # 1

\* A finished analysis of a graph with a dependency relationship between two
\* different nodes that resolve to one path.
C8_Witness ==
    /\ pc = "done"
    /\ \E j \in 1..Len(relationships) :
          /\ isDependencyRelationship(relationships[j])
          /\ relationships[j].startNode # relationships[j].endNode
          /\ MapGet(filePathById, relationships[j].startNode) # ""
          /\ MapGet(filePathById, relationships[j].startNode)
               = MapGet(filePathById, relationships[j].endNode)

\* The relationship types of the model that the classification takes for a dependency.
C9_DependencyTypes == {"imports", "dependsOn", "USES", "reuse"}

\* C9: an adjacency edge exists exactly between the different resolved paths
\* of a relationship whose type contains a dependency marker and not "call";
\* two files joined each way yield one cycle of length 2 when both types are
\* dependency types and no cycle otherwise.
C9_Classification ==
    /\ Built =>
          \A i \in 1..Len(adjacency) : \A e \in AdjacencyKeySet :
              (e \in Range(adjacency[i].value)) <=>
                  /\ e # adjacency[i].key
                  /\ \E j \in 1..Len(relationships) :
                        /\ relationships[j].type \in C9_DependencyTypes
                        /\ MapGet(filePathById, relationships[j].startNode) = adjacency[i].key
                        /\ MapGet(filePathById, relationships[j].endNode) = e
    /\ (pc = "done" /\ Len(relationships) = 2 /\ Len(nodes) = 2
        /\ relationships[1].startNode = relationships[2].endNode
        /\ relationships[2].startNode = relationships[1].endNode
        /\ relationships[1].startNode # relationships[1].endNode
        /\ Len(adjacency) = 2) =>
          IF relationships[1].type \in C9_DependencyTypes /\ relationships[2].type \in C9_DependencyTypes
          THEN Len(results) = 1 /\ results[1].length = 2
          ELSE results = <<>>

\* The two files joined by dependsOn relationships: one cycle of length 2.
C9_Witness ==
    /\ pc = "done"
    /\ Len(relationships) = 2
    /\ relationships[1].type = "dependsOn"
    /\ relationships[2].type = "dependsOn"
    /\ Len(results) = 1
    /\ results[1].cycle = <<"src/a.ts", "src/b.ts">>

\* C10: no ignored path is a key or a target of the adjacency map or an
\* element of a reported cycle.
C10_NoIgnoredPath ==
    /\ \A i \in 1..Len(adjacency) :
          /\ ~shouldIgnoreFile(adjacency[i].key, ignorePatterns)
          /\ \A e \in Range(adjacency[i].value) : ~shouldIgnoreFile(e, ignorePatterns)
    /\ \A k \in 1..Len(results) :
          \A e \in Range(results[k].cycle) : ~shouldIgnoreFile(e, ignorePatterns)

\* The node of the list with this id (ids are unique in the lists of the model).
NodeById(id) == nodes[CHOOSE i \in 1..Len(nodes) : nodes[i].id = id]

HasNode(id) == \E i \in 1..Len(nodes) : nodes[i].id = id

\* A finished analysis, with caller patterns, of a graph in which two nodes
\* import each other and one of them has a path the caller patterns ignore.
C10_Witness ==
    /\ pc = "done"
    /\ ignorePatterns # <<>>
    /\ results = <<>>
    /\ \E i, j \in 1..Len(relationships) :
          /\ relationships[i].startNode = relationships[j].endNode
          /\ relationships[i].endNode = relationships[j].startNode
          /\ relationships[i].startNode # relationships[i].endNode
          /\ HasNode(relationships[i].startNode)
          /\ HasNode(relationships[i].endNode)
          /\ ~shouldIgnoreFile(normalizePath(getFilePathFromNode(NodeById(relationships[i].startNode))), <<>>)
          /\ shouldIgnoreFile(normalizePath(getFilePathFromNode(NodeById(relationships[i].startNode))),
                              ignorePatterns)

\* p is the beginning of q.
IsPrefix(p, q) == Len(p) <= Len(q) /\ SubSeq(q, 1, Len(p)) = p

\* C4: on one graph, the analyses with the patterns P ++ Q report no more
\* cycles and no more dead functions than the analyses with the patterns P.
C4_MorePatternsNeverMore ==
    (/\ Len(earlier) = 1
     /\ pc = "done"
     /\ dpc = "done"
     /\ earlier[1].nodes = nodes
     /\ earlier[1].relationships = relationships
     /\ IsPrefix(earlier[1].ignorePatterns, ignorePatterns)) =>
        /\ Len(results) <= Len(earlier[1].results)
        /\ Len(deadCode) <= Len(earlier[1].deadCode)

\* The sequence without its closing element, when it is closed.
OpenForm(c) == IF Len(c) > 1 /\ c[1] = c[Len(c)] THEN SubSeq(c, 1, Len(c) - 1) ELSE c

Rotations(t) == {SubSeq(t, k, Len(t)) \o SubSeq(t, 1, k - 1) : k \in 1..Len(t)} \cup {t}

\* The rotations of a cycle and of its reverse, open and closed.
Variants(c) ==
    LET open == Rotations(OpenForm(c)) \cup Rotations(Reverse(OpenForm(c)))
    IN  open \cup {Append(r, r[1]) : r \in {t \in open : Len(t) > 0}}

\* C5: the value of normalizeCycle is a fixed point of normalizeCycle, is the
\* value for every rotation of the argument and of its reverse, and starts
\* with the smallest element.
C5_Canonical ==
    (unit.fn = "normalizeCycle" /\ unit.applied) =>
        /\ normalizeCycle(unit.out) = unit.out
        /\ \A r \in Variants(unit.arg) : normalizeCycle(r) = unit.out
        /\ unit.out # <<>> => \A e \in Range(unit.arg) : ~StrLess(e, unit.out[1])

\* s and t have the same elements the same number of times.
IsPermutation(s, t) ==
    /\ Len(s) = Len(t)
    /\ \A x \in Range(s) \cup Range(t) :
          Cardinality({i \in 1..Len(s) : s[i] = x}) = Cardinality({i \in 1..Len(t) : t[i] = x})

ResultIds(list) == {list[k].id : k \in 1..Len(list)}

\* C6: two analyses of one graph whose nodes and relationships are listed in
\* different orders report the same set of cycles.
C6_SameCyclesInAnyOrder ==
    (/\ Len(earlier) = 1
     /\ pc = "done"
     /\ IsPermutation(earlier[1].nodes, nodes)
     /\ IsPermutation(earlier[1].relationships, relationships)
     /\ earlier[1].ignorePatterns = ignorePatterns) =>
        ResultIds(results) = ResultIds(earlier[1].results)

\* What the model's nodes are expected to be for findDeadCode: the file paths
\* the ignore filter matches, the entry-point files, the entry-point names.
C7_IgnoredFiles ==
    {"src/__tests__/f.ts"} \cup (IF "gen/**" \in Range(ignorePatterns) THEN {"gen/f.ts"} ELSE {})

C7_EntryFiles == {"src/index.ts", "main.js", "src/f.test.mjs", "src/app.ts", "src/__tests__/f.ts"}

C7_EntryNames == {"Main", "get"}

\* The conditions of the claim on one node; its file path is filePath or else file.
C7_Expected(node) ==
    /\ "Function" \in node.labels
    /\ ~\E j \in 1..Len(relationships) :
           relationships[j].type = "calls" /\ relationships[j].endNode = node.id
    /\ (IF node.filePath # "" THEN node.filePath ELSE node.file) \notin C7_IgnoredFiles
    /\ (IF node.filePath # "" THEN node.filePath ELSE node.file) \notin C7_EntryFiles
    /\ node.name \notin C7_EntryNames
    /\ ~node.exported
    /\ ~node.isExported

\* The node list with isExported set on the node of this id.
WithIsExported(nodeList, id) ==
    [i \in 1..Len(nodeList) |->
        IF nodeList[i].id = id THEN [nodeList[i] EXCEPT !.isExported = TRUE] ELSE nodeList[i]]

\* The sequence without its k-th element.
Without(seq, k) == SubSeq(seq, 1, k - 1) \o SubSeq(seq, k + 1, Len(seq))

\* C7: findDeadCode reports a node exactly when it is a Function node that no
\* relationship of type "calls" ends at, whose file is neither ignored nor an
\* entry point, whose name is no entry-point name and that is not exported;
\* with isExported set on a reported node the result loses that entry only.
C7_DeadCodeIff ==
    dpc = "done" =>
        /\ \A i \in 1..Len(nodes) :
              (nodes[i].id \in ResultIds(deadCode)) <=> C7_Expected(nodes[i])
        /\ \A k \in 1..Len(deadCode) :
              findDeadCode(WithIsExported(nodes, deadCode[k].id), relationships, ignorePatterns)
                = Without(deadCode, k)

\* A result with one function reported, the other one exported, and a
\* relationship of type "Calls" that ends at the reported one.
C7_Witness ==
    /\ dpc = "done"
    /\ Len(deadCode) = 1
    /\ \E i \in 1..Len(nodes) : nodes[i].exported
    /\ \E j \in 1..Len(relationships) :
          relationships[j].type = "Calls" /\ relationships[j].endNode = deadCode[1].id

\* The keys of the adjacency map that have a target.
WithTargets(adj) == {adj[i].key : i \in {j \in 1..Len(adj) : adj[j].value # <<>>}}

\* The edges of the adjacency map are those of one simple cycle through the
\* files of S and no other.
ExactlyOneCycle(adj, S) ==
    /\ Cardinality(S) >= 2
    /\ S = WithTargets(adj)
    /\ \A s \in S : Len(Neighbors(adj, s)) = 1 /\ Neighbors(adj, s)[1] \in S
    /\ \E c \in ElementaryCycles(adj) : Range(c) = S

\* C11: no two results of a call have the same id or the same cycle, every id
\* is its cycle joined by "->", and a graph whose edges form exactly one simple
\* cycle of n files yields exactly one result, of length n, with those n paths.
C11_OneResultPerCycle ==
    /\ \A k, l \in 1..Len(results) :
          k # l => results[k].id # results[l].id /\ results[k].cycle # results[l].cycle
    /\ \A k \in 1..Len(results) : results[k].id = join(results[k].cycle, "->")
    /\ (pc = "done" /\ ExactlyOneCycle(adjacency, WithTargets(adjacency))) =>
          /\ Len(results) = 1
          /\ results[1].length = Cardinality(WithTargets(adjacency))
          /\ Range(results[1].cycle) = WithTargets(adjacency)

\* A finished analysis of one cycle of three files whose first root is not
\* the smallest path.
C11_Witness ==
    /\ pc = "done"
    /\ Len(adjacency) = 3
    /\ adjacency[1].key = "c.ts"
    /\ ExactlyOneCycle(adjacency, {"a.ts", "b.ts", "c.ts"})
    /\ Len(results) = 1
    /\ results[1].cycle = <<"a.ts", "b.ts", "c.ts">>

\* The candidates of the model that have a file extension.
C12_WithExtension == {"src/x.ts", "src/x.d", "src\\x.js"}

\* The candidates of the model with "/" for every backslash.
C12_Normalized(c) ==
    IF c = "src\\x" THEN "src/x" ELSE IF c = "src\\x.js" THEN "src/x.js" ELSE c

\* What is tried after the literal value: for each extension in the fixed
\* order, the candidate with it, then the index file with it.
C12_Tries(n) == <<
    n \o ".ts", n \o "/index.ts", n \o ".tsx", n \o "/index.tsx",
    n \o ".js", n \o "/index.js", n \o ".jsx", n \o "/index.jsx",
    n \o ".mjs", n \o "/index.mjs", n \o ".cjs", n \o "/index.cjs" >>

C12_Expected(c, known) ==
    LET n == C12_Normalized(c)
        tries == C12_Tries(n)
        hits == {i \in 1..Len(tries) : tries[i] \in known}
    IN  IF n \in known THEN n
        ELSE IF c \notin C12_WithExtension /\ hits # {}
             THEN tries[CHOOSE i \in hits : \A j \in hits : i <= j]
             ELSE ""

\* C12: resolveFilePath returns nothing or a known path: the normalized
\* candidate when it is known, else for a candidate without extension the
\* first known one of candidate+ext, candidate/index+ext in the order of the
\* extensions, else nothing; the caller keeps the normalized candidate then.
C12_Resolution ==
    (unit.fn = "resolveFilePath" /\ unit.applied) =>
        LET expected == C12_Expected(unit.arg.candidate, unit.arg.referencePaths)
        IN  /\ unit.out.resolved = expected
            /\ unit.out.resolved = "" \/ unit.out.resolved \in unit.arg.referencePaths
            /\ unit.out.used = IF expected = "" THEN C12_Normalized(unit.arg.candidate) ELSE expected

\* A candidate without extension resolved to the index file of its directory
\* although a later extension would match directly.
C12_Witness ==
    /\ unit.fn = "resolveFilePath"
    /\ unit.applied
    /\ unit.arg.candidate = "src\\x"
    /\ "src/x.tsx" \in unit.arg.referencePaths
    /\ unit.out.resolved = "src/x/index.ts"

\* The lines of a comment that are rows of its table (not the header, not
\* the rule under it), in their order.
C13_TableRows(comment) ==
    LET breaks == {i \in 1..Len(comment) : SubSeq(comment, i, i) = "\n"}
        ends == breaks \cup {Len(comment) + 1}
        LineAfter(p) == SubSeq(comment, p + 1, (CHOOSE q \in ends : q > p /\ \A r \in ends : r > p => q <= r) - 1)
        IsRow(line) == /\ Len(line) >= 3
                       /\ SubSeq(line, 1, 2) = "| "
                       /\ SubSeq(line, 3, 3) \notin {"#", "F"}
        starts == {p \in breaks \cup {0} : IsRow(LineAfter(p))}
    IN  [k \in 1..Cardinality(starts) |->
            LineAfter(CHOOSE p \in starts : Cardinality({q \in starts : q <= p}) = k)]

\* The cycles of the model as closed paths.
C13_ClosedPath(id) ==
    CASE id = "a.ts->b.ts" -> "a.ts -> b.ts -> a.ts"
      [] id = "b.ts->c.ts" -> "b.ts -> c.ts -> b.ts"
      [] id = "lib/w.ts->src/x/index.ts->src/y.ts"
            -> "lib/w.ts -> src/x/index.ts -> src/y.ts -> lib/w.ts"

\* C13: for no results both formatters return their clean message and no
\* table; for N > 0 results the table has min(N, 50) rows in the order of the
\* input, a cycle row is its number and the closed path, the total N is
\* stated, and the note on N - 50 more results is there exactly when N > 50.
C13_CommentShape ==
    (unit.fn \in {"formatPrComment", "DeadCode_formatPrComment"} /\ unit.applied) =>
        LET n == Len(unit.arg)
            rows == C13_TableRows(unit.out)
        IN  IF n = 0
            THEN /\ rows = <<>>
                 /\ ~includes(unit.out, "|")
                 /\ unit.fn = "formatPrComment" => includes(unit.out, "No circular dependencies found")
                 /\ unit.fn = "DeadCode_formatPrComment" => includes(unit.out, "No dead code found")
            ELSE /\ Len(rows) = (IF n < 50 THEN n ELSE 50)
                 /\ unit.fn = "formatPrComment" =>
                        \A k \in 1..Len(rows) :
                            rows[k] = "| " \o ToString(k) \o " | "
                                           \o C13_ClosedPath(unit.arg[k].id) \o " |"
                 /\ unit.fn = "DeadCode_formatPrComment" =>
                        \A k \in 1..Len(rows) :
                            /\ includes(rows[k], "'" \o unit.arg[k].name \o "'")
                            /\ includes(rows[k], " | " \o unit.arg[k].filePath)
                 /\ includes(unit.out, "Found **" \o ToString(n) \o "** ")
                 /\ includes(unit.out, "more. See action output for full list.") <=> n > 50
                 /\ n > 50 => includes(unit.out, "_...and " \o ToString(n - 50) \o " more.")

\* A comment on 52 cycles: 50 rows and the note on 2 more.
C13_Witness ==
    /\ unit.fn = "formatPrComment"
    /\ unit.applied
    /\ Len(unit.arg) = 52
    /\ Len(C13_TableRows(unit.out)) = 50
    /\ includes(unit.out, "_...and 2 more.")

\* The node has none of the properties filePath, path, file, name.
C14_NoProperties(node) ==
    node.filePath = "" /\ node.path = "" /\ node.file = "" /\ node.name = ""

\* The paths of the model's nodes: the id for a node without properties.
C14_Path(node) ==
    CASE node.id \in {"a.ts", "b.ts", "f"} -> node.id
      [] node.id = "g" -> "src/g.ts"
      [] node.id = "c" -> "c.ts"

\* What holds in every state of the analyses of a graph that lacks fields.
C14_Defaults ==
    /\ Built =>
          \* every node is mapped to its path, the id when it has no properties
          /\ \A i \in 1..Len(nodes) : MapGet(filePathById, nodes[i].id) = C14_Path(nodes[i])
          \* a node without File or Module label is no reference path when one with it exists
          /\ (\E i \in 1..Len(nodes) : nodes[i].labels \cap {"File", "Module"} # {}) =>
                 referencePaths = {C14_Path(nodes[i]) :
                                      i \in {j \in 1..Len(nodes) : nodes[j].labels \cap {"File", "Module"} # {}}}
          \* an edge is there exactly for an imports relationship between two nodes
          /\ \A i, j \in 1..Len(nodes) :
                 (C14_Path(nodes[j]) \in Range(Neighbors(adjacency, C14_Path(nodes[i])))) <=>
                     \E r \in 1..Len(relationships) :
                         /\ relationships[r].type = "imports"
                         /\ relationships[r].startNode = nodes[i].id
                         /\ relationships[r].endNode = nodes[j].id
          /\ AdjacencyKeySet = {C14_Path(nodes[i]) : i \in 1..Len(nodes)}
    /\ dpc = "done" =>
          \* the Function nodes that no relationship of type calls ends at, and no other
          /\ \A i \in 1..Len(nodes) :
                 (nodes[i].id \in ResultIds(deadCode)) <=>
                     /\ "Function" \in nodes[i].labels
                     /\ ~\E r \in 1..Len(relationships) :
                            relationships[r].type = "calls" /\ relationships[r].endNode = nodes[i].id
          /\ \A k \in 1..Len(deadCode) :
                 deadCode[k].id = "f" => deadCode[k].filePath = "" /\ deadCode[k].name = "anonymous"
    /\ (pc = "done" /\ (nodes = <<>> \/ relationships = <<>>)) => results = <<>>

\* The steps of the search and the return.
SearchSteps ==
    CallRoot \/ SkipRoot \/ DfsRecurse \/ DfsBackEdge \/ DfsSkip \/ DfsReturn \/ ReturnResults

\* findCircularDependencies has a next step: the three steps of the builder
\* have no condition but their position, the others are tested as they are.
CanStep == pc \in {"start", "map", "adjacency"} \/ ENABLED SearchSteps

\* C14: on a graph that lacks properties, labels, types or end nodes both
\* analyses use the defaults (the id as path, the empty file path, the name
\* anonymous, no selection without label, no edge without type, no edge to
\* an unknown node), and no call stops before it returns.
C14_DefaultsAndReturn ==
    /\ C14_Defaults
    /\ pc = "done" \/ CanStep
    /\ dpc = "done" \/ pc # "done" \/ ENABLED FindDeadCode

\* Both analyses returned on a graph with a File node and a Function node
\* without properties, a node without labels, and a relationship without
\* type that ends at the function: an edge between the two paths that are
\* ids, and the function reported as anonymous.
C14_Witness ==
    /\ pc = "done"
    /\ dpc = "done"
    /\ Len(nodes) = 3
    /\ "b.ts" \in Range(Neighbors(adjacency, "a.ts"))
    /\ \E r \in 1..Len(relationships) :
          relationships[r].type = "" /\ relationships[r].endNode = "f"
    /\ \E k \in 1..Len(deadCode) : deadCode[k].id = "f" /\ deadCode[k].name = "anonymous"

\* core.setFailed was called with the message on the cycles found.
C15_FailedForFindings == \E k \in 1..Len(run.failed) : SubSeq(run.failed[k], 1, 6) = "Found "

\* The two outputs are set, to the number of cycles and to their list.
C15_OutputsSet ==
    /\ Len(run.outputs) = 2
    /\ run.outputs[1].name = "circular-dependency-count"
    /\ run.outputs[1].value = ToString(Len(results))
    /\ run.outputs[2].name = "circular-dependency-json"
    /\ run.outputs[2].value = "[]" <=> results = <<>>

\* C15 as stated: a run that ended is marked failed for its findings exactly
\* when a cycle was found and fail-on-circular-deps is true.
C15_FailedIffFindings ==
    run.pc = "end" =>
        /\ C15_FailedForFindings <=> (Len(results) > 0 /\ run.failOnCircularDeps)
        /\ (~run.failOnCircularDeps /\ run.error = NoError) => run.failed = <<>>
        /\ C15_FailedForFindings => C15_OutputsSet

\* C15 as amended: a run in which no step throws is marked failed exactly
\* when a cycle was found and fail-on-circular-deps is true, and then for
\* its findings; a run in which a step throws is marked failed with the
\* message of the error only; the two outputs are set when the decision on
\* the findings is taken.
C15_FailedIffFindingsUnlessThrown ==
    /\ (run.pc = "end" /\ run.error = NoError) =>
          /\ C15_FailedForFindings <=> (Len(results) > 0 /\ run.failOnCircularDeps)
          /\ run.failed # <<>> <=> (Len(results) > 0 /\ run.failOnCircularDeps)
          /\ Len(run.failed) <= 1
    /\ (run.pc = "end" /\ run.error # NoError) =>
          /\ ~C15_FailedForFindings
          /\ Len(run.failed) = 1
    /\ run.pc \in {"decide", "end"} /\ run.error = NoError => C15_OutputsSet
    /\ C15_FailedForFindings => C15_OutputsSet

\* A run without error, with the comment posted, marked failed for one cycle.
C15_Witness ==
    /\ run.pc = "end"
    /\ run.error = NoError
    /\ run.failOnCircularDeps
    /\ Len(run.comments) = 1
    /\ run.failed = <<"Found 1 circular dependency">>
    /\ run.outputs[1].value = "1"

\* The normalized effective path of a node.
C16_Path(node) == normalizePath(getFilePathFromNode(node))

\* The nodes whose effective path is there and is not ignored.
C16_Kept == {i \in 1..Len(nodes) :
                C16_Path(nodes[i]) # "" /\ ~shouldIgnoreFile(C16_Path(nodes[i]), ignorePatterns)}

\* The paths of the kept nodes with the label File or Module.
C16_FilePaths ==
    {C16_Path(nodes[i]) : i \in {j \in C16_Kept : "File" \in nodes[j].labels \/ "Module" \in nodes[j].labels}}

\* The paths of all kept nodes.
C16_AllPaths == {C16_Path(nodes[i]) : i \in C16_Kept}

\* C16: the reference set is the set of the non-ignored paths of the File
\* and Module nodes when there is one, and of all nodes otherwise; every
\* node with a non-ignored path, and no other, is mapped, to the resolution
\* of its path against the reference set or to the path itself when that
\* finds nothing.  (Stated where the builder has just produced the two
\* values; no later step assigns them.)
C16_ReferenceFallback ==
    /\ pc = "map" =>
          referencePaths = IF C16_FilePaths # {} THEN C16_FilePaths ELSE C16_AllPaths
    /\ pc = "adjacency" =>
          /\ referencePaths = IF C16_FilePaths # {} THEN C16_FilePaths ELSE C16_AllPaths
          /\ \A i \in 1..Len(nodes) :
                LET path == C16_Path(nodes[i])
                    resolved == resolveFilePath(path, referencePaths)
                IN  IF i \in C16_Kept
                    THEN /\ HasKey(filePathById, nodes[i].id)
                         /\ MapGet(filePathById, nodes[i].id) = IF resolved # "" THEN resolved ELSE path
                         /\ resolved # "" => resolved \in referencePaths
                    ELSE ~HasKey(filePathById, nodes[i].id)
          /\ \A k \in 1..Len(filePathById) : HasNode(filePathById[k].key)

\* A mapped graph with no kept File or Module node (its only File node is
\* ignored), where the paths of the other nodes are the reference set and a
\* Function node is mapped.
C16_Witness ==
    /\ pc = "adjacency"
    /\ \E i \in 1..Len(nodes) : "File" \in nodes[i].labels
    /\ C16_FilePaths = {}
    /\ referencePaths = C16_AllPaths
    /\ referencePaths # {}
    /\ \E i \in C16_Kept : /\ nodes[i].labels = {"Function"}
                            /\ MapGet(filePathById, nodes[i].id) = C16_Path(nodes[i])

\* A mapped graph with a kept File node, where a Function node is mapped to
\* the path of the File node its own path resolves to.
C16_WitnessResolved ==
    /\ pc = "adjacency"
    /\ C16_FilePaths # {}
    /\ \E i \in C16_Kept : /\ nodes[i].labels = {"Function"}
                            /\ MapGet(filePathById, nodes[i].id) # C16_Path(nodes[i])

\* The resolved paths of the nodes that are not ignored.
C17_ResolvedPaths == {filePathById[k].value : k \in 1..Len(filePathById)}

\* Some dependency relationship goes from a node resolved to s to a node
\* resolved to e.
C17_Related(s, e) ==
    \E k \in 1..Len(relationships) :
        /\ isDependencyRelationship(relationships[k])
        /\ HasKey(filePathById, relationships[k].startNode)
        /\ HasKey(filePathById, relationships[k].endNode)
        /\ MapGet(filePathById, relationships[k].startNode) = s
        /\ MapGet(filePathById, relationships[k].endNode) = e

\* C17: once the map is built, its keys are the resolved paths of the nodes
\* that are not ignored, each once; every target is a key; no key is among
\* its own targets; no target is held twice; and e is a target of s exactly
\* when s and e differ and a dependency relationship goes from s to e.
C17_AdjacencyInvariants ==
    Built =>
        /\ \A i, j \in 1..Len(adjacency) : adjacency[i].key = adjacency[j].key => i = j
        /\ \A i \in 1..Len(adjacency) :
              LET targets == adjacency[i].value
              IN  /\ Range(targets) \subseteq AdjacencyKeySet
                  /\ adjacency[i].key \notin Range(targets)
                  /\ \A a, b \in 1..Len(targets) : targets[a] = targets[b] => a = b
        /\ pc = "roots" /\ root = 1 =>
              /\ AdjacencyKeySet = C17_ResolvedPaths
              /\ \A i, j \in 1..Len(adjacency) :
                    adjacency[j].key \in Range(adjacency[i].value)
                        <=> (i # j /\ C17_Related(adjacency[i].key, adjacency[j].key))

\* A map just built with a key that has no target and a key whose one
\* target comes from two dependency relationships.
C17_Witness ==
    /\ pc = "roots"
    /\ root = 1
    /\ \E i \in 1..Len(adjacency) : adjacency[i].value = <<>>
    /\ \E i \in 1..Len(adjacency) :
          /\ Len(adjacency[i].value) = 1
          /\ \E a, b \in 1..Len(relationships) :
                /\ a # b
                /\ \A k \in {a, b} :
                      /\ isDependencyRelationship(relationships[k])
                      /\ MapGet(filePathById, relationships[k].startNode) = adjacency[i].key
                      /\ MapGet(filePathById, relationships[k].endNode) = adjacency[i].value[1]

\* C18: onStack holds exactly the elements of the stack; the stack holds no
\* path twice; every stacked path is visited; every stacked path but the
\* first is a neighbor of the one below it; the top of the stack is the
\* path the running dfs call pushed, and each call below pushed the path at
\* its depth; outside a dfs call the stack and onStack are empty.
C18_StackDiscipline ==
    /\ onStack = Range(stack)
    /\ \A a, b \in 1..Len(stack) : stack[a] = stack[b] => a = b
    /\ Range(stack) \subseteq visited
    /\ \A k \in 1..(Len(stack) - 1) : stack[k + 1] \in Range(Neighbors(adjacency, stack[k]))
    /\ Len(frames) = Len(stack)
    /\ \A k \in 1..Len(frames) : frames[k].nodePath = stack[k]
    /\ pc = "dfs" <=> stack # <<>>
    /\ pc # "dfs" => onStack = {}

\* Three dfs calls inside one another, the innermost with the third path
\* on the stack.
C18_Witness ==
    /\ pc = "dfs"
    /\ Len(stack) = 3
    /\ onStack = {stack[1], stack[2], stack[3]}
    /\ Top.nodePath = stack[3]

\* The outer loop is between two roots after a dfs call that found a cycle.
C18_WitnessBetweenRoots ==
    /\ pc = "roots"
    /\ root > 1
    /\ root <= Len(adjacency)
    /\ results # <<>>
    /\ stack = <<>>

\* The neighbors the loops of the running dfs calls have still to look at.
RECURSIVE C19_Pending(_)
C19_Pending(k) ==
    IF k = 0 THEN 0
    ELSE C19_Pending(k - 1)
         + (Len(Neighbors(adjacency, frames[k].nodePath)) + 1 - frames[k].next)

\* The steps before the search: three, two, one, none.
C19_Phase ==
    CASE pc = "start" -> 4
      [] pc = "map" -> 3
      [] pc = "adjacency" -> 2
      [] pc \in {"roots", "dfs"} -> 1
      [] OTHER -> 0

\* A natural number bounded by the size of the graph: with at most n keys
\* (one per node), each key not yet visited counts n + 2, each running call
\* 1, each pending neighbor 1, each root the outer loop has still to pass 1.
C19_Measure ==
    LET n == Len(nodes)
    IN  C19_Phase * ((n + 2) * (n + 2) + 1)
        + (n + 2) * Cardinality(AdjacencyKeySet \ visited)
        + C19_Pending(Len(frames))
        + Len(frames)
        + (IF root <= Len(adjacency) THEN Len(adjacency) + 1 - root ELSE 0)

\* The conditions of DfsBackEdge; its other conjuncts give the next values.
C19_AtBackEdge ==
    /\ pc = "dfs"
    /\ Top.next <= Len(TopNeighbors)
    /\ TopNeighbors[Top.next] \in visited
    /\ TopNeighbors[Top.next] \in onStack

\* The call has a next step.
C19_CanStep ==
    \/ pc \in {"start", "map", "adjacency"}
    \/ ENABLED (CallRoot \/ SkipRoot \/ DfsRecurse \/ DfsSkip \/ DfsReturn \/ ReturnResults)
    \/ C19_AtBackEdge

\* A step that lowers the measure, takes no path out of visited, and enters
\* dfs only on an adjacency key that is not in visited, adding it.
C19_Lowered ==
    /\ C19_Measure' < C19_Measure
    /\ visited \subseteq visited'
    /\ visited' # visited <=> Len(frames') > Len(frames)
    /\ Len(frames') > Len(frames) =>
          LET entered == frames'[Len(frames')].nodePath
          IN  /\ Len(frames') = Len(frames) + 1
              /\ entered \in AdjacencyKeySet
              /\ entered \notin visited
              /\ visited' = visited \cup {entered}

\* C19: the call has a next step until it has returned, and every step
\* lowers a natural number, so the call returns; no step takes a path out of
\* visited; dfs is entered only on an adjacency key that is not yet in
\* visited, which it adds; and when the call returns every key is in visited.
C19_Terminates ==
    /\ [](pc = "done" \/ C19_CanStep)
    /\ [](C19_Measure \in Nat /\ visited \subseteq AdjacencyKeySet)
    /\ [](pc = "done" => visited = AdjacencyKeySet)
    /\ [][C19_Lowered]_vars

\* The call has returned from a graph with a cycle and a key outside it
\* that no edge leads to, every key visited.
C19_Witness ==
    /\ pc = "done"
    /\ results # <<>>
    /\ Len(adjacency) = 3
    /\ visited = AdjacencyKeySet
    /\ \E i \in 1..Len(adjacency) :
          /\ adjacency[i].value = <<>>
          /\ \A j \in 1..Len(adjacency) : adjacency[i].key \notin Range(adjacency[j].value)

\* The paths one edge away from a path of S.
C20_Successors(S) == UNION {Range(Neighbors(adjacency, p)) : p \in S}

\* The paths at most k edges away from a path of S.
RECURSIVE C20_Within(_, _)
C20_Within(S, k) == IF k = 0 THEN S ELSE C20_Within(S \cup C20_Successors(S), k - 1)

\* The paths that lie on a directed cycle of the adjacency graph.
C20_OnCycle ==
    {p \in AdjacencyKeySet : p \in C20_Within(C20_Successors({p}), Len(adjacency))}

\* C20: the list findCircularDependencies returns is empty exactly when no
\* path of the adjacency graph lies on a directed cycle.
C20_EmptyIffAcyclic ==
    pc = "done" => (results = <<>> <=> C20_OnCycle = {})

\* The call has returned a cycle from a graph with edges whose first key,
\* the first root of the outer loop, lies on no cycle.
C20_Witness ==
    /\ pc = "done"
    /\ results # <<>>
    /\ C20_OnCycle # {}
    /\ Len(adjacency) = 3
    /\ adjacency[1].key \notin C20_OnCycle
    /\ adjacency[1].value # <<>>

\* The call has returned nothing from an acyclic graph in which one path is
\* reached along two different ways.
C20_WitnessAcyclic ==
    /\ pc = "done"
    /\ results = <<>>
    /\ \E i, j \in 1..Len(adjacency) :
          /\ i # j
          /\ Range(adjacency[i].value) \cap Range(adjacency[j].value) # {}
          /\ adjacency[j].key \in Range(adjacency[i].value)

====
